---- MODULE Spec2Model ----
(***************************************************************************)
(* Model of starfield (src/starfield/__init__.py): the class rewriter that *)
(* replaces an attrs class's __init__ by one collecting positional         *)
(* arguments into a "star field", and the replacement __init__ itself.     *)
(*                                                                         *)
(* One target class is modelled.  Its definition (whether it carries       *)
(* __attrs_attrs__, and its ordered field list) is fixed by Init; the      *)
(* actions are a call starfield(target_class) and a call of the target     *)
(* class with positional and keyword arguments, once the replacement       *)
(* constructor is installed.  The                                          *)
(* class is taken to have been built with init=False, so that attrs        *)
(* generated __attrs_init__, and its fields carry no default.              *)
(***************************************************************************)
EXTENDS Integers, Sequences, FiniteSets, TLC

\* ---------------------------------------------------------------- bounds
\* Largest number of fields of the target class.
MaxFields == 2
\* Largest number of positional arguments of a constructor call.
MaxArgs == 2

\* Field names, by position in the class body (names are unique in a class).
FieldNames == <<"f1", "f2", "f3", "f4", "f5">>

\* Values a caller passes positionally.
PosValues == {"x", "y"}

\* ---------------------------------------------------------------- values
\* A Python value: a scalar, or a tuple of scalars.
Scalar(v) == [kind |-> "scalar", items |-> <<v>>]
Tuple(s) == [kind |-> "tuple", items |-> s]

\* Values a caller passes by keyword: a scalar, or the empty tuple.
KwValues == {Scalar("x"), Tuple(<<>>)}

\* All sequences over S of length at most n.
SeqUpTo(S, n) == UNION {[1..k -> S] : k \in 0..n}

\* ------------------------------------------------------------ descriptors
\* attrs.Attribute, reduced to the parts starfield reads or writes: the name,
\* the kw_only flag, and what metadata holds under STARFIELD_KEY:
\*   "no_key"              metadata has no STARFIELD_KEY entry
\*   "is_starfield_false"  metadata[STARFIELD_KEY]["is_starfield"] is falsy
\*   "is_starfield_true"   metadata[STARFIELD_KEY]["is_starfield"] is truthy
Metadata == {"no_key", "is_starfield_false", "is_starfield_true"}

Attribute(i) == [name : {FieldNames[i]}, kw_only : BOOLEAN, metadata : Metadata]

\* The field lists a class can have: n fields, the i-th named FieldNames[i].
AttributeLists ==
    UNION {{s \in [1..n -> UNION {Attribute(i) : i \in 1..n}] :
              \A i \in 1..n : s[i].name = FieldNames[i]} : n \in 0..MaxFields}

\* Placeholder for "no descriptor captured" (the original __init__).
NoAttribute == [name |-> "", kw_only |-> FALSE, metadata |-> "no_key"]

\* attribute.metadata.get(STARFIELD_KEY, {}).get("is_starfield")
IsStarfield(attribute) == attribute.metadata = "is_starfield_true"

\* attribute.evolve(kw_only=True): a copy with kw_only replaced.
Evolve(attribute) == [attribute EXCEPT !.kw_only = TRUE]

\* ----------------------------------------------------------------- state
VARIABLES
    has_attrs_attrs,   \* hasattr(target_class, "__attrs_attrs__")
    attributes,        \* fields(target_class): the class's own field list
    class_init,        \* target_class.__init__: which constructor is installed
    call,              \* the last call made: its operation and its arguments
    raised,            \* the exception the last call raised, or "none"
    returned,          \* what the last starfield call returned
    error_attributes,  \* the descriptor list the cardinality error reports
    error_count,       \* the count the cardinality error reports
    attrs_init_calls,  \* the __attrs_init__ invocations made by the last call
    instance           \* field values of the instance the last call built

vars == <<has_attrs_attrs, attributes, class_init, call, raised, returned,
          error_attributes, error_count, attrs_init_calls, instance>>

NoKwargs == [n \in {} |-> Scalar("x")]
NoCall == [op |-> "none", args |-> <<>>, kwargs |-> NoKwargs]
NothingReturned == [kind |-> "nothing", items |-> <<>>]
OriginalInit == [kind |-> "original", variadic_attribute |-> NoAttribute]

Init ==
    /\ has_attrs_attrs \in BOOLEAN
    /\ attributes \in AttributeLists
    /\ (~has_attrs_attrs => attributes = <<>>)
    /\ class_init = OriginalInit
    /\ call = NoCall
    /\ raised = "none"
    /\ returned = NothingReturned
    /\ error_attributes = <<>>
    /\ error_count = 0
    /\ attrs_init_calls = <<>>
    /\ instance = NoKwargs

\* ------------------------------------------------------------- starfield
\* [attribute for attribute in attributes
\*    if attribute.metadata.get(STARFIELD_KEY, {}).get("is_starfield")]
\* Faulty variant: tests only that metadata has a STARFIELD_KEY entry.
VariadicAttributes_KeyPresent(attrs) ==
    SelectSeq(attrs, LAMBDA attribute : attribute.metadata # "no_key")

VariadicAttributes(attrs) == SelectSeq(attrs, IsStarfield)

\* variadic_attribute = attributes[0]
VariadicAttribute(attrs) == attrs[1]

\* [attribute.evolve(kw_only=True) if attribute != variadic_attribute
\*    else attribute for attribute in attributes]
\* Faulty variant: filters the captured descriptor out instead of keeping it.
ReturnedAttributes_Filtered(attrs, variadic_attribute) ==
    [i \in 1..(Len(attrs) - 1) |-> Evolve(Tail(attrs)[i])]

ReturnedAttributes(attrs, variadic_attribute) ==
    [i \in 1..Len(attrs) |->
        IF attrs[i] # variadic_attribute THEN Evolve(attrs[i]) ELSE attrs[i]]

\* The closure __init__ defined inside starfield, with the descriptor it captures.
NewInit(variadic_attribute) ==
    [kind |-> "starfield", variadic_attribute |-> variadic_attribute]

\* Faulty variant: the assignment to target_class.__init__ is made before the
\* cardinality check.
starfield_InstallsBeforeCheck ==
    /\ call' = [op |-> "starfield", args |-> <<>>, kwargs |-> NoKwargs]
    /\ attrs_init_calls' = <<>>
    /\ instance' = NoKwargs
    /\ UNCHANGED <<has_attrs_attrs, attributes>>
    /\ IF ~has_attrs_attrs \/ Len(attributes) = 0
       THEN /\ raised' = IF has_attrs_attrs THEN "ValueError_cardinality"
                         ELSE "TypeError"
            /\ error_attributes' = <<>>
            /\ error_count' = 0
            /\ returned' = NothingReturned
            /\ UNCHANGED class_init
       ELSE LET variadic_attributes == VariadicAttributes(attributes)
                variadic_attribute == VariadicAttribute(attributes) IN
            /\ class_init' = NewInit(variadic_attribute)
            /\ IF Len(variadic_attributes) # 1
               THEN /\ raised' = "ValueError_cardinality"
                    /\ error_attributes' = variadic_attributes
                    /\ error_count' = Len(variadic_attributes)
                    /\ returned' = NothingReturned
               ELSE /\ raised' = "none"
                    /\ error_attributes' = <<>>
                    /\ error_count' = 0
                    /\ returned' = [kind |-> "list",
                                    items |-> ReturnedAttributes(attributes,
                                                                 variadic_attribute)]

\* The call starfield(target_class).
starfield ==
    /\ call' = [op |-> "starfield", args |-> <<>>, kwargs |-> NoKwargs]
    /\ attrs_init_calls' = <<>>
    /\ instance' = NoKwargs
    /\ UNCHANGED <<has_attrs_attrs, attributes>>
    /\ IF ~has_attrs_attrs
       THEN /\ raised' = "TypeError"
            /\ error_attributes' = <<>>
            /\ error_count' = 0
            /\ returned' = NothingReturned
            /\ UNCHANGED class_init
       ELSE LET variadic_attributes == VariadicAttributes(attributes) IN
            IF Len(variadic_attributes) # 1
            THEN /\ raised' = "ValueError_cardinality"
                 /\ error_attributes' = variadic_attributes
                 /\ error_count' = Len(variadic_attributes)
                 /\ returned' = NothingReturned
                 /\ UNCHANGED class_init
            ELSE LET variadic_attribute == VariadicAttribute(attributes) IN
                 /\ raised' = "none"
                 /\ error_attributes' = <<>>
                 /\ error_count' = 0
                 /\ class_init' = NewInit(variadic_attribute)
                 /\ returned' = [kind |-> "list",
                                 items |-> ReturnedAttributes(attributes,
                                                              variadic_attribute)]

\* ------------------------------------------------- replacement constructor
\* variadic_attribute.name in kwargs and len(args) > 0
Ambiguous(variadic_attribute, args, kwargs) ==
    variadic_attribute.name \in DOMAIN kwargs /\ Len(args) > 0

\* kwargs[variadic_attribute.name] = args
StoreArgs(variadic_attribute, args, kwargs) ==
    [n \in DOMAIN kwargs \cup {variadic_attribute.name} |->
        IF n = variadic_attribute.name THEN Tuple(args) ELSE kwargs[n]]

\* self.__attrs_init__(**kwargs) of a class whose fields have no default:
\* a field missing from kwargs is a TypeError, otherwise every field is set
\* from its keyword.
AttrsInitRaises(attrs, kwargs) ==
    IF \E i \in 1..Len(attrs) : attrs[i].name \notin DOMAIN kwargs
    THEN "TypeError_attrs_init" ELSE "none"

\* The names a caller may pass by keyword: the class's field names.
KeywordNames(attrs) == {attrs[i].name : i \in 1..Len(attrs)}

\* The call target_class(*args, **kwargs) once starfield has replaced __init__.
__init__ ==
    /\ class_init.kind = "starfield"
    /\ \E args \in SeqUpTo(PosValues, MaxArgs),
          keys \in SUBSET KeywordNames(attributes) :
         \E kwargs \in [keys -> KwValues] :
            LET variadic_attribute == class_init.variadic_attribute IN
            /\ call' = [op |-> "__init__", args |-> args, kwargs |-> kwargs]
            /\ IF Ambiguous(variadic_attribute, args, kwargs)
               THEN /\ raised' = "ValueError_ambiguous"
                    /\ attrs_init_calls' = <<>>
                    /\ instance' = NoKwargs
               ELSE LET stored == StoreArgs(variadic_attribute, args, kwargs) IN
                    /\ attrs_init_calls' = <<[args |-> <<>>, kwargs |-> stored]>>
                    /\ raised' = AttrsInitRaises(attributes, stored)
                    /\ instance' = IF AttrsInitRaises(attributes, stored) = "none"
                                   THEN stored ELSE NoKwargs
    /\ returned' = NothingReturned
    /\ error_attributes' = <<>>
    /\ error_count' = 0
    /\ UNCHANGED <<has_attrs_attrs, attributes, class_init>>

Next == starfield \/ __init__

Spec == Init /\ [][Next]_vars

\* ---------------------------------------------------------------- claims
\* Vocabulary of the claims: the positions of the fields marked as star field,
\* and the name of the marked field of a class that has exactly one.
MarkedPositions ==
    {i \in 1..Len(attributes) : attributes[i].metadata = "is_starfield_true"}
ExactlyOneMarked == Cardinality(MarkedPositions) = 1
MarkedName == attributes[CHOOSE i \in MarkedPositions : TRUE].name
AttrsInitKwargs == attrs_init_calls[1].kwargs

\* C1: when the class has exactly one marked field, wherever it sits,
\* starfield succeeds and the returned list has kw_only true for every field
\* but the marked one, whose kw_only is as in the input.
C1_KwOnlyExceptMarked ==
    (call.op = "starfield" /\ has_attrs_attrs /\ ExactlyOneMarked) =>
        /\ raised = "none"
        /\ Len(returned.items) = Len(attributes)
        /\ \A i \in 1..Len(attributes) :
              returned.items[i].kw_only =
                 IF i \in MarkedPositions THEN attributes[i].kw_only ELSE TRUE

\* C2: N positional arguments and no keyword for the marked field reach the
\* original initializer as the tuple of those N values under the marked
\* field's name, and the built instance's marked field holds that tuple.
C2_PositionalsReachMarkedField ==
    (call.op = "__init__" /\ MarkedName \notin DOMAIN call.kwargs) =>
        /\ raised # "ValueError_ambiguous"
        /\ Len(attrs_init_calls) = 1
        /\ MarkedName \in DOMAIN AttrsInitKwargs
        /\ AttrsInitKwargs[MarkedName] = Tuple(call.args)
        /\ (raised = "none" => instance[MarkedName] = Tuple(call.args))

\* C3: zero positional arguments and a keyword value v for the marked field:
\* the call passes the ambiguity check and the marked field receives v itself.
C3_KeywordValueKept ==
    (call.op = "__init__" /\ Len(call.args) = 0
       /\ MarkedName \in DOMAIN call.kwargs) =>
        /\ raised # "ValueError_ambiguous"
        /\ Len(attrs_init_calls) = 1
        /\ MarkedName \in DOMAIN AttrsInitKwargs
        /\ AttrsInitKwargs[MarkedName] = call.kwargs[MarkedName]
        /\ (raised = "none" => instance[MarkedName] = call.kwargs[MarkedName])

\* C4: at least one positional argument together with a keyword named after
\* the marked field raises the ambiguous-supply ValueError, and the original
\* initializer is not invoked.
C4_AmbiguousSupplyRejected ==
    (call.op = "__init__" /\ Len(call.args) > 0
       /\ MarkedName \in DOMAIN call.kwargs) =>
        /\ raised = "ValueError_ambiguous"
        /\ attrs_init_calls = <<>>

\* C5: with zero or with two or more marked fields starfield raises the
\* marker-cardinality ValueError, reporting exactly the marked descriptors
\* and their count.
C5_CardinalityError ==
    (call.op = "starfield" /\ has_attrs_attrs /\ ~ExactlyOneMarked) =>
        /\ raised = "ValueError_cardinality"
        /\ error_count = Cardinality(MarkedPositions)
        /\ Len(error_attributes) = Cardinality(MarkedPositions)
        /\ {error_attributes[i] : i \in 1..Len(error_attributes)} =
              {attributes[i] : i \in MarkedPositions}

C5_Witness ==
    /\ call.op = "starfield"
    /\ has_attrs_attrs
    /\ Cardinality(MarkedPositions) = 2
    /\ raised = "ValueError_cardinality"
    /\ error_count = 2

\* C7: on success starfield returns the class it was given.
C7_ReturnsClass ==
    (call.op = "starfield" /\ raised = "none") => returned.kind = "class"

\* C8: on success the returned list matches the class's field list position
\* for position (same length, same names in order, each descriptor equal to
\* the input one up to kw_only), and the class's field list is not changed.
C8_Step ==
    (call'.op = "starfield" /\ raised' = "none") =>
        /\ attributes' = attributes
        /\ Len(returned'.items) = Len(attributes)
        /\ \A i \in 1..Len(attributes) :
              /\ returned'.items[i].name = attributes[i].name
              /\ [returned'.items[i] EXCEPT !.kw_only = attributes[i].kw_only]
                    = attributes[i]
C8_PositionForPosition == [][C8_Step]_vars

C8_Witness ==
    /\ call.op = "starfield"
    /\ raised = "none"
    /\ Len(attributes) >= 2
    /\ \E i \in 1..Len(attributes) : returned.items[i] # attributes[i]

\* C9: a constructor call that passes the ambiguity check invokes the original
\* initializer exactly once, with no positional arguments, every keyword of
\* the caller other than the marked field's name passed on unchanged, and no
\* key added other than the marked field's name.
C9_OtherKeywordsUntouched ==
    (call.op = "__init__" /\ raised # "ValueError_ambiguous") =>
        /\ Len(attrs_init_calls) = 1
        /\ attrs_init_calls[1].args = <<>>
        /\ \A n \in DOMAIN call.kwargs \ {MarkedName} :
              n \in DOMAIN AttrsInitKwargs /\ AttrsInitKwargs[n] = call.kwargs[n]
        /\ DOMAIN AttrsInitKwargs \subseteq DOMAIN call.kwargs \cup {MarkedName}

\* C10: the constructor changes only in a successful starfield call on an
\* attrs class with exactly one marked field; a failing starfield call leaves
\* the constructor as it was; a constructor call never raises the
\* marker-cardinality error.
C10_Step ==
    /\ (class_init' # class_init =>
           /\ call'.op = "starfield"
           /\ raised' = "none"
           /\ has_attrs_attrs
           /\ ExactlyOneMarked)
    /\ ((call'.op = "starfield" /\ raised' # "none") =>
           /\ raised' \in {"TypeError", "ValueError_cardinality"}
           /\ class_init' = class_init)
    /\ (call'.op = "__init__" => raised' # "ValueError_cardinality")
C10_ConstructorReplacedOnlyOnSuccess == [][C10_Step]_vars

C10_Witness ==
    /\ call.op = "starfield"
    /\ raised = "ValueError_cardinality"
    /\ Len(attributes) >= 2
    /\ class_init = OriginalInit

====
